---- MODULE Spec2Model ----
(***************************************************************************)
(* Matchmaking cog of g3-discord-bot (src/matchmaking.py) and its Glicko   *)
(* rating engine (src/rating_system.py) as a state machine.                *)
(*                                                                         *)
(* Every handler is one action, except where the handler awaits between a  *)
(* check and the mutation it guards (report_match, on_submit_pick, the     *)
(* select menu): there the handler is two actions and the suspended half   *)
(* sits in `inflight`, so that other handlers interleave at the await.     *)
(*                                                                         *)
(* Ratings and deviations are stored as integers (save_player_data rounds  *)
(* before writing and every reader re-reads the file).  Team averages are  *)
(* carried in fifths of a rating point, real quantities of the rating      *)
(* engine in fixed point.                                                  *)
(***************************************************************************)
EXTENDS Integers, Sequences, FiniteSets, TLC

(***************************************************************************)
(* Bounds of the model.                                                    *)
(***************************************************************************)
NumArenas == 2
MaxViews == 2
MaxInflight == 2
MaxNow == 1
MaxSwapViews == 2
MaxDrafts == 1
MaxSelects == 1

(***************************************************************************)
(* Program constants.                                                      *)
(***************************************************************************)
DEFAULT_RATING == 1500
DEFAULT_DEVIATION == 350
NumPlayers == 10
TeamSize == 5

Arenas == 1..NumArenas
Ids == 1..NumPlayers

(***************************************************************************)
(* Fixed-point arithmetic for rating_system.py.  A real x in [0, 1] is the *)
(* integer x * Scale; a squared deviation is carried in 1/VarScale.  TLC's *)
(* integers are 32 bits wide, so a product is never formed: MulDiv returns *)
(* floor(a * b / c) by halving b.                                          *)
(***************************************************************************)
Scale == 10^8
VarScale == 10^4

\* <<a * b \div c, a * b % c>>, b taken one digit of the given base at a time
RECURSIVE MulDivQR(_, _, _, _)
MulDivQR(a, b, c, base) ==
    IF b = 0 THEN <<0, 0>>
    ELSE LET h == MulDivQR(a, b \div base, c, base)
             r == base * h[2] + (b % base) * (a % c)
             q == base * h[1] + (b % base) * (a \div c)
         IN  <<q + (r \div c), r % c>>

\* The largest digit base for which no intermediate value of MulDivQR leaves 32 bits
DigitBase(c) ==
    IF c <= 2^30 \div 16 THEN 16
    ELSE IF c <= 2^30 \div 8 THEN 8
    ELSE IF c <= 2^30 \div 4 THEN 4 ELSE 2

\* a * b \div Scale from the halves of a and b
Limb == 10^4
MulScale(a, b) ==
    LET a1 == a \div Limb
        a0 == a % Limb
        b1 == b \div Limb
        b0 == b % Limb
    IN  a1 * b1 + (a1 * b0 + a0 * b1 + (a0 * b0) \div Limb) \div Limb

\* floor(a * b / c).  The guard evaluates the operands before they are used.
MulDiv(a, b, c) ==
    IF ~(a >= 0 /\ b >= 0 /\ c > 0) THEN 0
    ELSE IF c = Scale /\ (a \div Limb) + (b \div Limb) < 2 * 10^5 THEN MulScale(a, b)
    ELSE MulDivQR(a, b, c, DigitBase(c))[1]

Abs(x) == IF x < 0 THEN -x ELSE x

\* e, with v computed first.  TLC computes a definition where it is first used,
\* inside the evaluation that uses it; After keeps that nesting shallow.
After(v, e) == IF v = v THEN e ELSE e

\* factor = 173.7178, as factor * 10^4
FactorE4 == 1737178
\* factor^2 and (0.06 * factor)^2 in 1/VarScale
FactorSq == 301778740
VolatilitySq == 1086403
\* pi^2 * factor^2 / 3 in 1/625: g(s)^2 = GConst / (GConst + 25 * (5 s)^2)
GConst == 62050766

RECURSIVE SqrtIter(_, _, _)
SqrtIter(a, y, n) ==
    IF n = 0 \/ y = 0 THEN y
    ELSE LET next == (y + MulDiv(a, Scale, y)) \div 2
         IN  IF next = y THEN y ELSE SqrtIter(a, next, n - 1)

\* math.sqrt of a real in (0, 1], both scaled by Scale (Newton from 1)
SqrtUnit(a) == SqrtIter(a, Scale, 8)

RECURSIVE ExpSeries(_, _, _, _)
ExpSeries(u, term, k, acc) ==
    IF k > 12 \/ term = 0 \/ acc < 0 THEN acc
    ELSE LET t == MulDiv(term, u, Scale) \div k
         IN  ExpSeries(u, t, k + 1, IF k % 2 = 1 THEN acc - t ELSE acc + t)

RECURSIVE SquareTimes(_, _)
SquareTimes(e, n) == IF n = 0 \/ e = 0 THEN e ELSE SquareTimes(MulDiv(e, e, Scale), n - 1)

\* math.exp(-x) for a real x >= 0, both scaled by Scale
ExpNeg(x) ==
    IF x > 16 * Scale THEN 0
    ELSE SquareTimes(ExpSeries(x \div 16, Scale, 1, Scale), 4)

\* g(stdev)^2 and g(stdev), rating_system.py:73-74; stdev in fifths
g_sq(stdev5) == MulDiv(GConst, Scale, GConst + 25 * stdev5 * stdev5)
g(stdev5) == SqrtUnit(g_sq(stdev5))

\* E(rating1, rating2, stdev2), rating_system.py:78-79; all arguments in fifths.
\* g(stdev2) * |rating1 - rating2| on the internal scale
ExpArg(d, gv) == MulDiv(gv, Abs(d) * 1000, (5 * FactorE4) \div 10)
\* 1 / (1 + exp(-x)) for x >= 0
Logistic(x) == MulDiv(Scale, Scale, Scale + ExpNeg(x))
\* 1 / (1 + exp(-g d)) from its value at |d|
Expected(d, big) == IF d >= 0 THEN big ELSE Scale - big

E(rating1, rating2, stdev2) ==
    Expected(rating1 - rating2, Logistic(ExpArg(rating1 - rating2, g(stdev2))))

RECURSIVE RoundSqrtIn(_, _, _)
RoundSqrtIn(d2, lo, hi) ==
    IF hi - lo <= 1 THEN lo
    ELSE LET mid == (lo + hi) \div 2
         IN  IF (2 * mid - 1) * (2 * mid - 1) * (VarScale \div 4) <= d2
             THEN RoundSqrtIn(d2, mid, hi) ELSE RoundSqrtIn(d2, lo, mid)

\* round(math.sqrt(d2)) for d2 in 1/VarScale: the n with (n - 1/2)^2 <= d2 < (n + 1/2)^2
RoundSqrt(d2) == IF d2 >= 0 THEN RoundSqrtIn(d2, 0, 400) ELSE 0

(***************************************************************************)
(* rating_change(rating1, stdev1, rating2, stdev2, score),                 *)
(* rating_system.py:42-69.  rating1, rating2 and stdev2 are team averages  *)
(* in fifths, stdev1 the player's own integer deviation.  Returns          *)
(* <<rating1_delta in fifths, stdev1_delta>>.                              *)
(***************************************************************************)
\* 1 / v_uncertainty (line 57), given e = E(rating1, rating2, stdev2)
InvUncertainty(e, stdev2) == MulDiv(g_sq(stdev2), MulDiv(e, Scale - e, Scale), Scale)
\* stdev1_star^2 (line 60) in 1/VarScale of the rating scale
StarSq(stdev1) == VarScale * stdev1 * stdev1 + VolatilitySq
\* 1 / (1 / star + inv_v) (line 61), inv_v on the internal scale
Shrunk(star, shrink) == MulDiv(star, FactorSq \div 8, (FactorSq + shrink) \div 8)

\* stdev1_prime^2 in 1/VarScale
StdevPrimeSq(e, stdev1, stdev2) ==
    Shrunk(StarSq(stdev1), MulDiv(StarSq(stdev1), InvUncertainty(e, stdev2), Scale))

\* |rating1_prime - rating1| * factor (line 63) in 1/VarScale
RatingStep(prime_sq, gv, e, score) ==
    MulDiv(MulDiv(MulDiv(prime_sq, gv, Scale), IF score = 1 THEN Scale - e ELSE e, Scale),
           10000, FactorE4)

\* round(rating1_prime * factor + 1500) (line 66) for rating1 in fifths
\* The step added whatever the score.  C34 does not hold of it.
RoundedRatingUp(rating1, step, score) ==
    (rating1 * (VarScale \div 5) + step + VarScale \div 2) \div VarScale

RoundedRating(rating1, step, score) ==
    (rating1 * (VarScale \div 5) + (IF score = 1 THEN step ELSE -step) + VarScale \div 2)
        \div VarScale

\* Lines 66-69
Deltas(rating1, stdev1, stdev2, score, e, prime_sq) ==
    <<5 * RoundedRating(rating1, RatingStep(prime_sq, g(stdev2), e, score), score) - rating1,
      RoundSqrt(prime_sq) - stdev1>>

DeltasFrom(rating1, stdev1, stdev2, score, e) ==
    Deltas(rating1, stdev1, stdev2, score, e, StdevPrimeSq(e, stdev1, stdev2))

rating_change(rating1, stdev1, rating2, stdev2, score) ==
    DeltasFrom(rating1, stdev1, stdev2, score, E(rating1, rating2, stdev2))

(***************************************************************************)
(* new_team_ratings(team1, team2, score), rating_system.py:5-37.  A team   *)
(* is a sequence of [rating, deviation] with integer entries.  The result  *)
(* carries ratings and rating deltas in fifths (the team mean of five      *)
(* integers is a multiple of 1/5).                                         *)
(***************************************************************************)
RECURSIVE SumRating(_, _)
SumRating(team, i) == IF i = 0 THEN 0 ELSE team[i].rating + SumRating(team, i - 1)

RECURSIVE SumDeviation(_, _)
SumDeviation(team, i) == IF i = 0 THEN 0 ELSE team[i].deviation + SumDeviation(team, i - 1)

\* statistics.mean over a team of TeamSize players, in fifths
MeanRating5(team) == SumRating(team, Len(team))
MeanDeviation5(team) == SumDeviation(team, Len(team))

\* Lines 27 and 35: the new pair of one player and the rating delta
\* The deviation delta stored as the new deviation.  C35 does not hold of it.
PlayerUpdateDelta(player, d) ==
    [delta5 |-> d[1], rating5 |-> 5 * player.rating + d[1], deviation |-> d[2]]

PlayerUpdate(player, d) ==
    [delta5 |-> d[1], rating5 |-> 5 * player.rating + d[1],
     deviation |-> player.deviation + d[2]]

ApplyChanges(team, change) ==
    After(change, [i \in 1..Len(team) |-> PlayerUpdate(team[i], change[team[i].deviation])])

\* One call of rating_change per player; players of equal deviation get equal deltas
\* Each player rated from their own rating, not from the team average.  C39 does
\* not hold of it.
TeamUpdateOwnRating(team, avg_own, avg_other, stdev_other, score) ==
    [i \in 1..Len(team) |->
        PlayerUpdate(team[i], rating_change(5 * team[i].rating, team[i].deviation,
                                            avg_other, stdev_other, score))]

TeamUpdate(team, avg_own, avg_other, stdev_other, score) ==
    ApplyChanges(team, [stdev1 \in {team[i].deviation : i \in 1..Len(team)} |->
                           rating_change(avg_own, stdev1, avg_other, stdev_other, score)])

\* new_team_ratings giving team 2 the score of team 1 (line 33 without its
\* "1 -").  C33 does not hold of it.
new_team_ratings_one_score(team1, team2, score) ==
    LET avg_rating_t1 == MeanRating5(team1)
        avg_stdev_t1 == MeanDeviation5(team1)
        avg_rating_t2 == MeanRating5(team2)
        avg_stdev_t2 == MeanDeviation5(team2)
    IN  [team1 |-> TeamUpdate(team1, avg_rating_t1, avg_rating_t2, avg_stdev_t2, score),
         team2 |-> TeamUpdate(team2, avg_rating_t2, avg_rating_t1, avg_stdev_t1, score)]

new_team_ratings(team1, team2, score) ==
    LET avg_rating_t1 == MeanRating5(team1)
        avg_stdev_t1 == MeanDeviation5(team1)
        avg_rating_t2 == MeanRating5(team2)
        avg_stdev_t2 == MeanDeviation5(team2)
    IN  [team1 |-> TeamUpdate(team1, avg_rating_t1, avg_rating_t2, avg_stdev_t2, score),
         team2 |-> TeamUpdate(team2, avg_rating_t2, avg_rating_t1, avg_stdev_t1, 1 - score)]

(***************************************************************************)
(* PlayerStore (players.csv): a function from the ids that have a row to   *)
(* [display_name, rating, deviation].                                      *)
(***************************************************************************)
\* df.round().astype(int) of save_player_data on a value in fifths
RoundFifths(x5) == (2 * x5 + 5) \div 10

NewPlayerRow(player_name) ==
    [display_name |-> player_name, rating |-> DEFAULT_RATING, deviation |-> DEFAULT_DEVIATION]

\* get_or_create_player: the store after the call
\* get_or_create_player writing a fresh row over the row of a member whose display
\* name changed.  C27 does not hold of it.
get_or_create_reset(store, player_id, player_name) ==
    IF player_id \notin DOMAIN store
    THEN (player_id :> NewPlayerRow(player_name)) @@ store
    ELSE IF store[player_id].display_name # player_name
         THEN [store EXCEPT ![player_id] = NewPlayerRow(player_name)]
         ELSE store

get_or_create_player(store, player_id, player_name) ==
    IF player_id \notin DOMAIN store
    THEN (player_id :> NewPlayerRow(player_name)) @@ store
    ELSE IF store[player_id].display_name # player_name
         THEN [store EXCEPT ![player_id].display_name = player_name]
         ELSE store

RECURSIVE CreateAll(_, _, _, _)
CreateAll(store, members, names, i) ==
    IF i = 0 THEN store
    ELSE get_or_create_player(CreateAll(store, members, names, i - 1),
                              members[i], names[members[i]])

\* The row get_or_create_player returns, as the dict kept in players_data
Snapshot(store, player_id) ==
    [discord_id |-> player_id, rating |-> store[player_id].rating,
     deviation |-> store[player_id].deviation]

(***************************************************************************)
(* balance_teams(players), matchmaking.py:67-88.  players is a sequence of *)
(* snapshots; the result is the pair of id lists.                          *)
(***************************************************************************)
NoIds == << >>

RECURSIVE CombosFrom(_, _, _)
\* itertools.combinations(start..n, k) in lexicographic order
CombosFrom(start, n, k) ==
    IF k = 0 THEN << <<>> >>
    ELSE IF start > n - k + 1 THEN << >>
    ELSE LET with == CombosFrom(start + 1, n, k - 1)
         IN  [i \in 1..Len(with) |-> <<start>> \o with[i]] \o CombosFrom(start + 1, n, k)

Combinations == CombosFrom(1, NumPlayers, TeamSize)

\* itertools.combinations(players, 5), as lists of positions in players
\* itertools.combinations read from its last tuple to its first: the combinations
\* without the first player come before those with it.  C38 does not hold of it.
CombinationsFromLast(players) ==
    LET combos == IF Len(players) = NumPlayers THEN Combinations
                  ELSE CombosFrom(1, Len(players), TeamSize)
    IN  [c \in 1..Len(combos) |-> combos[Len(combos) + 1 - c]]

CombinationsOf(players) ==
    IF Len(players) = NumPlayers THEN Combinations
    ELSE CombosFrom(1, Len(players), TeamSize)

RECURSIVE SumAt(_, _, _)
SumAt(players, idx, i) ==
    IF i = 0 THEN 0 ELSE players[idx[i]].rating + SumAt(players, idx, i - 1)

\* team2_list that keeps every player: line 76 without its filter.  C23 does not
\* hold of it.
ComplementAll(players, idx) == [i \in 1..Len(players) |-> i]

\* team2_list, line 76: the players that equal no member of team1_list
Complement(players, idx) ==
    SelectSeq([i \in 1..Len(players) |-> i],
              LAMBDA i : \A j \in 1..Len(idx) : players[idx[j]] # players[i])

\* diff of one combination, in fifths: both sums are divided by 5 (lines 79-80)
TeamsDiff(players, idx, rest) ==
    Abs(SumAt(players, idx, Len(idx)) - SumAt(players, rest, Len(rest)))

ComboDiff(players, idx) == TeamsDiff(players, idx, Complement(players, idx))

\* min_diff left at the diff of the first combination: the loop without its
\* comparison.  C22 does not hold of it.
FirstDiff(players) == ComboDiff(players, CombinationsOf(players)[1])

\* min_diff when the loop ends
MinDiff(players) ==
    LET combos == CombinationsOf(players)
        diffs == {ComboDiff(players, combos[c]) : c \in 1..Len(combos)}
    IN  CHOOSE d \in diffs : \A e \in diffs : d <= e

\* The combination a loop that compared with <= would keep: the last of the
\* smallest diff.  C24 does not hold of it.
LastBestCombo(players) ==
    LET combos == CombinationsOf(players)
        min_diff == MinDiff(players)
    IN  CHOOSE c \in 1..Len(combos) :
            /\ ComboDiff(players, combos[c]) = min_diff
            /\ \A b \in (c + 1)..Len(combos) : ComboDiff(players, combos[b]) # min_diff

\* The combination the loop keeps: the first whose diff is below every earlier one
BestCombo(players) ==
    LET combos == CombinationsOf(players)
        min_diff == MinDiff(players)
    IN  CHOOSE c \in 1..Len(combos) :
            /\ ComboDiff(players, combos[c]) = min_diff
            /\ \A b \in 1..(c - 1) : ComboDiff(players, combos[b]) # min_diff

\* best_teams as id lists; ([], []) when the loop body never ran
balance_teams(players) ==
    LET combos == CombinationsOf(players)
    IN  IF Len(combos) = 0 THEN <<NoIds, NoIds>>
        ELSE LET idx == combos[BestCombo(players)]
                 rest == Complement(players, idx)
             IN  <<[i \in 1..Len(idx) |-> players[idx[i]].discord_id],
                   [i \in 1..Len(rest) |-> players[rest[i]].discord_id]>>

(***************************************************************************)
(* State.                                                                  *)
(*   players          players.csv (PlayerStore)                            *)
(*   matches          matches.csv (MatchStore), oldest first               *)
(*   active_matches   Matchmaking.active_matches, channel -> match         *)
(*   pending_matches  Matchmaking.pending_matches, channel -> proposal     *)
(*   views            every CreateTeamsView and CaptainsPickView created;  *)
(*                    a view owns its team lists, and a registry entry     *)
(*                    built from a view refers to those same lists         *)
(*   swap_views       every SwapPlayersView created                        *)
(*   inflight         handlers suspended at an await                       *)
(*   names            the members' current display names                   *)
(*   now              datetime.now().timestamp(), in seconds               *)
(*   confirms         number of matches confirmed so far                   *)
(*   rated            per confirmed match, how often its ratings were      *)
(*                    written to players.csv                               *)
(*   last             the last handler step and its response               *)
(***************************************************************************)
VARIABLES players, matches, active_matches, pending_matches, views, swap_views,
          inflight, names, now, confirms, rated, last

vars == <<players, matches, active_matches, pending_matches, views, swap_views,
          inflight, names, now, confirms, rated, last>>

Names == {"a", "b"}
\* The member lists a command is given: ten distinct members, or one member twice
MemberLists == {[i \in 1..NumPlayers |-> i],
                [i \in 1..NumPlayers |-> IF i = 2 THEN 1 ELSE i]}
\* The users that run the commands, those that press the buttons of a proposal
\* (a member and the author) and those that use a draft's menu (both captains)
Authors == {3}
Users == {1, 3}
Pickers == {1, 2}
\* The members whose display name changes
RenameIds == {1}
\* The ratings an administrator sets, and for whom
EditIds == {1}
EditRatings == {1400}
Winners == {"blue", "abandoned"}
WriteFailures == {"none", "players", "matches"}

NoSeq == << >>

\* del d[k] emptying the dict.  C36 does not hold of it.
RemoveAll(f, k) == << >>
\* del d[k], d.pop(k)
Remove(f, k) == [x \in DOMAIN f \ {k} |-> f[x]]
Put(f, k, val) == (k :> val) @@ f
RemoveAt(seq, i) == [j \in 1..(Len(seq) - 1) |-> IF j < i THEN seq[j] ELSE seq[j + 1]]
Range(seq) == {seq[i] : i \in 1..Len(seq)}
\* list.remove(x) for a list without duplicates
Without(seq, x) == SelectSeq(seq, LAMBDA y : y # x)

Reply(op, on, result) == last' = [op |-> op, on |-> on, result |-> result]

View(kind, channel, author_id, players_data, team1, team2, captains, available_players) ==
    [kind |-> kind, channel |-> channel, author_id |-> author_id, stopped |-> FALSE,
     players_data |-> players_data, team1 |-> team1, team2 |-> team2,
     captains |-> captains, available_players |-> available_players,
     current_picker_index |-> 0, picks_to_make |-> 1, pick_turn |-> 1,
     values |-> NoSeq, accepted |-> NoSeq]

Init ==
    /\ players = << >>
    /\ matches = << >>
    /\ active_matches = << >>
    /\ pending_matches = << >>
    /\ views = << >>
    /\ swap_views = << >>
    /\ inflight = << >>
    /\ names = [i \in Ids |-> "a"]
    /\ now = 0
    /\ confirms = 0
    /\ rated = << >>
    /\ last = [op |-> "init", on |-> 0, result |-> "ok"]

\* get_player_list_from_args, matchmaking.py:449-458: None, or the snapshots
\* The test of line 452 counting the arguments and not the distinct ids.  C26 does
\* not hold of it.
TenPlayers(members) == Len(members) = NumPlayers
UniquePlayers(members) == Cardinality(Range(members)) = NumPlayers

PlayersData(store, members) == [i \in 1..Len(members) |-> Snapshot(store, members[i])]

SnapshotOf(players_data) ==
    [id \in {players_data[i].discord_id : i \in 1..Len(players_data)} |->
        LET row == CHOOSE i \in 1..Len(players_data) : players_data[i].discord_id = id
        IN  [rating |-> players_data[row].rating, deviation |-> players_data[row].deviation]]

(***************************************************************************)
(* /recommend_teams, matchmaking.py:486-510.                               *)
(***************************************************************************)
\* The check made on the other registry.  C2 does not hold of it.
PendingConflict(channel) == channel \in DOMAIN pending_matches
ActiveConflict(channel) == channel \in DOMAIN active_matches

recommend_teams(channel, user, members) ==
    IF ActiveConflict(channel)
    THEN /\ Reply("recommend_teams", channel, "conflict")
         /\ UNCHANGED <<players, matches, active_matches, pending_matches, views,
                        swap_views, inflight, names, now, confirms, rated>>
    ELSE IF ~UniquePlayers(members)
    THEN /\ Reply("recommend_teams", channel, "invalid")
         /\ UNCHANGED <<players, matches, active_matches, pending_matches, views,
                        swap_views, inflight, names, now, confirms, rated>>
    ELSE /\ Len(views) < MaxViews
         /\ LET store == CreateAll(players, members, names, Len(members))
                players_data == PlayersData(store, members)
                teams == balance_teams(players_data)
            IN  /\ players' = store
                /\ views' = Append(views, View("teams", channel, user, SnapshotOf(players_data),
                                               teams[1], teams[2], NoSeq, NoSeq))
                /\ pending_matches' = Put(pending_matches, channel, [view |-> Len(views) + 1])
         /\ Reply("recommend_teams", channel, "ok")
         /\ UNCHANGED <<matches, active_matches, swap_views, inflight, names, now,
                        confirms, rated>>

(***************************************************************************)
(* CreateTeamsView, matchmaking.py:92-150.  A stopped view receives no     *)
(* interaction.                                                            *)
(***************************************************************************)
Live(v, kind) == v \in 1..Len(views) /\ views[v].kind = kind /\ ~views[v].stopped

Match(match_id, v, serial) == [match_id |-> match_id, view |-> v, serial |-> serial]

confirm_match(v, user, t) ==
    /\ Live(v, "teams")
    /\ IF user # views[v].author_id
       THEN /\ Reply("confirm_match", v, "not_author")
            /\ UNCHANGED <<players, matches, active_matches, pending_matches, views,
                           swap_views, inflight, names, now, confirms, rated>>
       ELSE /\ now' = t
            /\ active_matches' = Put(active_matches, views[v].channel,
                                     Match(t, v, confirms + 1))
            /\ pending_matches' = Remove(pending_matches, views[v].channel)
            /\ views' = [views EXCEPT ![v].stopped = TRUE]
            /\ confirms' = confirms + 1
            /\ rated' = Put(rated, confirms + 1, 0)
            /\ Reply("confirm_match", v, "ok")
            /\ UNCHANGED <<players, matches, swap_views, inflight, names>>

\* "Cancel" without line 150: the view keeps listening.  C15 does not hold of it.
cancel_match_view_open(v, user) ==
    /\ Live(v, "teams")
    /\ IF user # views[v].author_id
       THEN /\ Reply("cancel", v, "not_author")
            /\ UNCHANGED pending_matches
       ELSE /\ pending_matches' = Remove(pending_matches, views[v].channel)
            /\ Reply("cancel", v, "ok")
    /\ UNCHANGED <<players, matches, active_matches, views, swap_views, inflight,
                   names, now, confirms, rated>>

cancel_match_view(v, user) ==
    /\ Live(v, "teams")
    /\ IF user # views[v].author_id
       THEN /\ Reply("cancel", v, "not_author")
            /\ UNCHANGED <<players, matches, active_matches, pending_matches, views,
                           swap_views, inflight, names, now, confirms, rated>>
       ELSE /\ pending_matches' = Remove(pending_matches, views[v].channel)
            /\ views' = [views EXCEPT ![v].stopped = TRUE]
            /\ Reply("cancel", v, "ok")
            /\ UNCHANGED <<players, matches, active_matches, swap_views, inflight,
                           names, now, confirms, rated>>

(***************************************************************************)
(* SwapPlayersView, matchmaking.py:152-202.  The view is opened by the     *)
(* "Swap Players" button of a CreateTeamsView and offers that view's       *)
(* current team members; p1 and p2 are the options selected in it (0: no   *)
(* selection).  It has no interaction_check of its own.                    *)
(***************************************************************************)
SwapSelections(team1, team2) ==
    {<<0, 0>>, <<team1[1], team2[1]>>, <<team1[1], team2[2]>>}

swap_players(v, user, sel) ==
    /\ Live(v, "teams")
    /\ IF user # views[v].author_id
       THEN /\ Reply("swap_players", v, "not_author")
            /\ UNCHANGED swap_views
       ELSE /\ Len(swap_views) < MaxSwapViews
            /\ sel \in SwapSelections(views[v].team1, views[v].team2)
            /\ swap_views' = Append(swap_views, [original_view |-> v, p1 |-> sel[1],
                                                 p2 |-> sel[2], stopped |-> FALSE])
            /\ Reply("swap_players", v, "ok")
    /\ UNCHANGED <<players, matches, active_matches, pending_matches, views,
                   inflight, names, now, confirms, rated>>

\* The lists after lines 183-190 without line 188: p2 stays in team2.  C16 does not
\* hold of it.
SwappedOneWay(team1, team2, p1_id, p2_id) ==
    IF p1_id \in Range(team1) /\ p2_id \in Range(team2)
    THEN <<Append(Without(team1, p1_id), p2_id), Append(team2, p1_id)>>
    ELSE <<team1, team2>>

\* The lists after lines 183-190
SwappedTeams(team1, team2, p1_id, p2_id) ==
    IF p1_id \in Range(team1) /\ p2_id \in Range(team2)
    THEN <<Append(Without(team1, p1_id), p2_id), Append(Without(team2, p2_id), p1_id)>>
    ELSE <<team1, team2>>

confirm_swap(sv) ==
    /\ sv \in 1..Len(swap_views)
    /\ ~swap_views[sv].stopped
    /\ LET w == swap_views[sv]
           v == w.original_view
       IN  IF w.p1 = 0 \/ w.p2 = 0
           THEN /\ Reply("confirm_swap", v, "empty")
                /\ UNCHANGED <<views, swap_views>>
           ELSE LET teams == SwappedTeams(views[v].team1, views[v].team2, w.p1, w.p2)
                IN  /\ views' = [views EXCEPT ![v].team1 = teams[1], ![v].team2 = teams[2]]
                    /\ swap_views' = [swap_views EXCEPT ![sv].stopped = TRUE]
                    /\ Reply("confirm_swap", v, "ok")
    /\ UNCHANGED <<players, matches, active_matches, pending_matches, inflight,
                   names, now, confirms, rated>>

cancel_swap(sv) ==
    /\ sv \in 1..Len(swap_views)
    /\ ~swap_views[sv].stopped
    /\ swap_views' = [swap_views EXCEPT ![sv].stopped = TRUE]
    /\ Reply("cancel_swap", swap_views[sv].original_view, "ok")
    /\ UNCHANGED <<players, matches, active_matches, pending_matches, views,
                   inflight, names, now, confirms, rated>>

(***************************************************************************)
(* /report_match, matchmaking.py:612-710.  The handler awaits defer()      *)
(* between the existence check (614) and the pop (620): report_match is    *)
(* the first half, report_match_run the second.                            *)
(***************************************************************************)
Suspended(op, channel, v, user, winner, turn, picked) ==
    [op |-> op, channel |-> channel, view |-> v, user |-> user, winner |-> winner,
     turn |-> turn, values |-> picked]

\* /report_match taking a proposal that nobody confirmed for a match.  C21 does not
\* hold of it.
report_match_pending(channel, winner) ==
    /\ IF channel \notin DOMAIN active_matches /\ channel \notin DOMAIN pending_matches
       THEN /\ Reply("report_match", channel, "not_found")
            /\ UNCHANGED inflight
       ELSE /\ Len(inflight) < MaxInflight
            /\ inflight' = Append(inflight,
                                  Suspended("report_match", channel, 0, 0, winner, 0, NoSeq))
            /\ Reply("report_match", channel, "deferred")
    /\ UNCHANGED <<players, matches, active_matches, pending_matches, views,
                   swap_views, names, now, confirms, rated>>

report_match(channel, winner) ==
    /\ IF channel \notin DOMAIN active_matches
       THEN /\ Reply("report_match", channel, "not_found")
            /\ UNCHANGED inflight
       ELSE /\ Len(inflight) < MaxInflight
            /\ inflight' = Append(inflight,
                                  Suspended("report_match", channel, 0, 0, winner, 0, NoSeq))
            /\ Reply("report_match", channel, "deferred")
    /\ UNCHANGED <<players, matches, active_matches, pending_matches, views,
                   swap_views, names, now, confirms, rated>>

\* The rows of a team read from players.csv at the report instead of the dicts
\* captured when the teams were formed.  C19 does not hold of it.
TeamRowsFromStore(v, team) ==
    [i \in 1..Len(team) |-> [rating |-> players[team[i]].rating,
                             deviation |-> players[team[i]].deviation]]

\* ratings_team_1/2, lines 651-652: the values of the dicts captured at formation
TeamRows(v, team) ==
    [i \in 1..Len(team) |-> views[v].players_data[team[i]]]

\* The name of the winning team with "abandoned" taken for a red win.  C13 does not
\* hold of it.
WinnerNameOfTeam(winner) == IF winner = "blue" THEN "Blue Team" ELSE "Red Team"

WinnerName(winner) ==
    IF winner = "blue" THEN "Blue Team"
    ELSE IF winner = "red" THEN "Red Team" ELSE "Abandoned"

MatchRecord(match_info, winner) ==
    [match_id |-> match_info.match_id, winner |-> WinnerName(winner),
     team1_ids |-> views[match_info.view].team1,
     team2_ids |-> views[match_info.view].team2,
     timestamp |-> now, serial |-> match_info.serial]

\* The new record saved without the records read from the file.  C29 does not hold
\* of it.
SaveMatchOnly(log, record) == <<record>>
\* Lines 669-682: matches.csv read, the new record concatenated, the file written
SaveMatch(log, record) == Append(log, record)

\* Lines 659-666: the rows of the team members overwritten, then rounded by the save
RECURSIVE WriteTeam(_, _, _, _)
WriteTeam(store, team, rows, i) ==
    IF i = 0 THEN store
    ELSE LET rest == WriteTeam(store, team, rows, i - 1)
             row == rows[i]
         IN  IF team[i] \in DOMAIN rest
             THEN [rest EXCEPT ![team[i]].rating = RoundFifths(row.rating5),
                               ![team[i]].deviation = row.deviation]
             ELSE rest

UpdatedPlayers(store, match_info, winner) ==
    LET v == match_info.view
        team1 == views[v].team1
        team2 == views[v].team2
        score == IF winner = "blue" THEN 1 ELSE 0
        new == new_team_ratings(TeamRows(v, team1), TeamRows(v, team2), score)
    IN  WriteTeam(WriteTeam(store, team1, new.team1, Len(team1)),
                  team2, new.team2, Len(team2))

\* The registry had line 620 read the entry without removing it.  C6 does not hold
\* of it.
KeepActive(channel) == active_matches
\* The registry after line 620
PopActive(channel) == Remove(active_matches, channel)

report_match_run(i, fail) ==
    /\ i \in 1..Len(inflight)
    /\ inflight[i].op = "report_match"
    /\ inflight' = RemoveAt(inflight, i)
    /\ LET channel == inflight[i].channel
           winner == inflight[i].winner
       IN  IF channel \notin DOMAIN active_matches
           THEN \* pop raises KeyError
                /\ Reply("report_match_run", channel, "key_error")
                /\ UNCHANGED <<players, matches, active_matches, rated>>
           ELSE LET match_info == active_matches[channel]
                IN  /\ active_matches' = PopActive(channel)
                    /\ IF winner = "abandoned"
                       THEN /\ UNCHANGED <<players, rated>>
                            /\ IF fail = "matches"
                               THEN /\ Reply("report_match_run", channel, "write_failed")
                                    /\ UNCHANGED matches
                               ELSE /\ matches' = SaveMatch(matches, MatchRecord(match_info, winner))
                                    /\ Reply("report_match_run", channel, "ok")
                       ELSE IF fail = "players"
                       THEN /\ Reply("report_match_run", channel, "write_failed")
                            /\ UNCHANGED <<players, matches, rated>>
                       ELSE /\ players' = UpdatedPlayers(players, match_info, winner)
                            /\ rated' = [rated EXCEPT ![match_info.serial] = @ + 1]
                            /\ IF fail = "matches"
                               THEN /\ Reply("report_match_run", channel, "write_failed")
                                    /\ UNCHANGED matches
                               ELSE /\ matches' = SaveMatch(matches, MatchRecord(match_info, winner))
                                    /\ Reply("report_match_run", channel, "ok")
    /\ UNCHANGED <<pending_matches, views, swap_views, names, now, confirms>>

(***************************************************************************)
(* /cancel_match, matchmaking.py:785-793 and /edit_rating, 798-811.        *)
(***************************************************************************)
\* /cancel_match emptying the registry.  C14 does not hold of it.
cancel_match_all(channel) ==
    /\ IF channel \notin DOMAIN active_matches
       THEN /\ Reply("cancel_match", channel, "not_found")
            /\ UNCHANGED active_matches
       ELSE /\ active_matches' = << >>
            /\ Reply("cancel_match", channel, "ok")
    /\ UNCHANGED <<players, matches, pending_matches, views, swap_views, inflight,
                   names, now, confirms, rated>>

cancel_match(channel) ==
    /\ IF channel \notin DOMAIN active_matches
       THEN /\ Reply("cancel_match", channel, "not_found")
            /\ UNCHANGED active_matches
       ELSE /\ active_matches' = Remove(active_matches, channel)
            /\ Reply("cancel_match", channel, "ok")
    /\ UNCHANGED <<players, matches, pending_matches, views, swap_views, inflight,
                   names, now, confirms, rated>>

\* /edit_rating writing a fresh row with the new rating.  C28 does not hold of it.
edit_rating_fresh(player, rating) ==
    /\ players' = Put(players, player, [NewPlayerRow(names[player]) EXCEPT !.rating = rating])
    /\ Reply("edit_rating", player, "ok")
    /\ UNCHANGED <<matches, active_matches, pending_matches, views, swap_views,
                   inflight, names, now, confirms, rated>>

edit_rating(player, rating) ==
    /\ players' = [(IF player \in DOMAIN players THEN players
                     ELSE get_or_create_player(players, player, names[player]))
                       EXCEPT ![player].rating = rating]
    /\ Reply("edit_rating", player, "ok")
    /\ UNCHANGED <<matches, active_matches, pending_matches, views, swap_views,
                   inflight, names, now, confirms, rated>>

\* A member changes their display name (outside the bot)
Rename(player, name) ==
    /\ names[player] # name
    /\ names' = [names EXCEPT ![player] = name]
    /\ Reply("rename", player, "ok")
    /\ UNCHANGED <<players, matches, active_matches, pending_matches, views,
                   swap_views, inflight, now, confirms, rated>>

(***************************************************************************)
(* /captains_pick, matchmaking.py:552-602.  caps is <<captain1, captain2>> *)
(* or <<0, 0>> when none is given and random.sample draws the pair.        *)
(***************************************************************************)
CaptainArgs == {<<0, 0>>, <<1, 2>>, <<2, 2>>}
RandomCaptains == {<<1, 2>>}

captains_pick(channel, user, members, caps, drawn) ==
    IF ActiveConflict(channel)
    THEN /\ Reply("captains_pick", channel, "conflict")
         /\ UNCHANGED <<players, matches, active_matches, pending_matches, views,
                        swap_views, inflight, names, now, confirms, rated>>
    ELSE IF ~UniquePlayers(members)
    THEN /\ Reply("captains_pick", channel, "invalid")
         /\ UNCHANGED <<players, matches, active_matches, pending_matches, views,
                        swap_views, inflight, names, now, confirms, rated>>
    ELSE LET store == CreateAll(players, members, names, Len(members))
             players_data == PlayersData(store, members)
             given == caps[1] # 0 /\ caps[2] # 0
             captains == IF given THEN caps ELSE drawn
             available_players ==
                 SelectSeq(members, LAMBDA m : m # captains[1] /\ m # captains[2])
         IN  /\ players' = store
             /\ IF given /\ (caps[1] \notin Range(members) \/ caps[2] \notin Range(members))
                THEN Reply("captains_pick", channel, "invalid_captains") /\ UNCHANGED views
                ELSE IF given /\ caps[1] = caps[2]
                THEN Reply("captains_pick", channel, "same_captain") /\ UNCHANGED views
                ELSE /\ Len(views) < MaxViews
                     /\ Cardinality({v \in 1..Len(views) : views[v].kind = "draft"}) < MaxDrafts
                     /\ views' = Append(views, View("draft", channel, user,
                                                    SnapshotOf(players_data),
                                                    <<captains[1]>>, <<captains[2]>>,
                                                    captains, available_players))
                     /\ Reply("captains_pick", channel, "ok")
             /\ UNCHANGED <<matches, active_matches, pending_matches, swap_views,
                            inflight, names, now, confirms, rated>>

(***************************************************************************)
(* CaptainsPickView, matchmaking.py:325-431.                               *)
(***************************************************************************)
\* The check without the turn: either captain passes.  C7 does not hold of it.
AnyCaptainCheck(view, user) == user \in Range(view.captains)
interaction_check(view, user) ==
    LET picker_id == view.captains[view.current_picker_index + 1]
    IN  \/ (picker_id < 0 /\ user = view.author_id)
        \/ user = picker_id

\* What a user can select in the menu built by update_player_select: picks_to_make
\* of the options, in the order chosen
PickSelections(options, num_picks) ==
    IF num_picks = 1
    THEN {<<options[i]>> : i \in 1..(IF Len(options) < 2 THEN Len(options) ELSE 2)}
    ELSE IF Len(options) >= 3
    THEN {<<options[3], options[1]>>}
    ELSE IF Len(options) = 2 THEN {<<options[1], options[2]>>} ELSE {}

\* A user selects in the menu shown; the interaction is on its way to the bot
select_players(v, user, picked) ==
    /\ Live(v, "draft")
    /\ Len(inflight) < MaxInflight
    /\ Cardinality({i \in 1..Len(inflight) : inflight[i].op = "select"}) < MaxSelects
    /\ picked \in PickSelections(views[v].available_players, views[v].picks_to_make)
    /\ inflight' = Append(inflight, Suspended("select", views[v].channel, v, user, "",
                                              0, picked))
    /\ Reply("select_players", v, "sent")
    /\ UNCHANGED <<players, matches, active_matches, pending_matches, views,
                   swap_views, names, now, confirms, rated>>

\* The interaction arrives: select_callback, lines 355-359, behind interaction_check
select_callback(i) ==
    /\ i \in 1..Len(inflight)
    /\ inflight[i].op = "select"
    /\ inflight' = RemoveAt(inflight, i)
    /\ LET v == inflight[i].view
       IN  IF views[v].stopped
           THEN Reply("select_callback", v, "ignored") /\ UNCHANGED views
           ELSE IF ~interaction_check(views[v], inflight[i].user)
           THEN Reply("select_callback", v, "not_your_turn") /\ UNCHANGED views
           ELSE /\ views' = [views EXCEPT ![v].values = inflight[i].values]
                /\ Reply("select_callback", v, "ok")
    /\ UNCHANGED <<players, matches, active_matches, pending_matches, swap_views,
                   names, now, confirms, rated>>

\* "Submit Pick" up to the await of line 393
on_submit_pick(v, user) ==
    /\ Live(v, "draft")
    /\ IF ~interaction_check(views[v], user)
       THEN Reply("on_submit_pick", v, "not_your_turn") /\ UNCHANGED inflight
       ELSE /\ Len(inflight) < MaxInflight
            /\ inflight' = Append(inflight, Suspended("on_submit_pick", views[v].channel, v,
                                                      user, "", views[v].pick_turn, NoSeq))
            /\ Reply("on_submit_pick", v, "deferred")
    /\ UNCHANGED <<players, matches, active_matches, pending_matches, views,
                   swap_views, names, now, confirms, rated>>

\* The loop without line 409: a picked player stays in available_players.  C12 does
\* not hold of it.
RECURSIVE MovePickedKeepPool(_, _, _, _)
MovePickedKeepPool(team, pool, picked_ids, i) ==
    IF i > Len(picked_ids) THEN [team |-> team, pool |-> pool, raised |-> FALSE]
    ELSE IF picked_ids[i] \notin Range(pool)
    THEN [team |-> team, pool |-> pool, raised |-> TRUE]
    ELSE MovePickedKeepPool(Append(team, picked_ids[i]), pool, picked_ids, i + 1)

\* Lines 405-409: the picked players moved one by one; next() raises on an id that is
\* not in available_players, and the players moved before it stay moved
RECURSIVE MovePicked(_, _, _, _)
MovePicked(team, pool, picked_ids, i) ==
    IF i > Len(picked_ids) THEN [team |-> team, pool |-> pool, raised |-> FALSE]
    ELSE IF picked_ids[i] \notin Range(pool)
    THEN [team |-> team, pool |-> pool, raised |-> TRUE]
    ELSE MovePicked(Append(team, picked_ids[i]), Without(pool, picked_ids[i]),
                    picked_ids, i + 1)

\* The next turn without line 425.  C10 does not hold of it.
NextTurnSamePicker(view) ==
    [view EXCEPT !.pick_turn = @ + 1,
                 !.picks_to_make = IF view.pick_turn + 1 = 5 THEN 1 ELSE 2,
                 !.values = NoSeq]
\* Lines 421-428
NextTurn(view) ==
    [view EXCEPT !.pick_turn = @ + 1,
                 !.current_picker_index = 1 - @,
                 !.picks_to_make = IF view.pick_turn + 1 = 5 THEN 1 ELSE 2,
                 !.values = NoSeq]

\* The test of line 412 asking for the fifth turn.  C11 does not hold of it.
DraftOverAtFive(view) == view.pick_turn = 5 /\ Len(view.available_players) = 1
\* Lines 412-415
DraftOver(view) == view.pick_turn = 4 /\ Len(view.available_players) = 1

\* on_submit_pick from line 396 on; t is the second finalize_match reads
on_submit_pick_run(i, t) ==
    /\ i \in 1..Len(inflight)
    /\ inflight[i].op = "on_submit_pick"
    /\ inflight' = RemoveAt(inflight, i)
    /\ LET v == inflight[i].view
           view == views[v]
           own == IF view.current_picker_index = 0 THEN view.team1 ELSE view.team2
           m == MovePicked(own, view.available_players, view.values, 1)
           moved == IF view.current_picker_index = 0
                    THEN [view EXCEPT !.team1 = m.team, !.available_players = m.pool]
                    ELSE [view EXCEPT !.team2 = m.team, !.available_players = m.pool]
       IN  IF view.values = NoSeq
           THEN /\ Reply("on_submit_pick_run", v, "empty")
                /\ UNCHANGED <<views, active_matches, now, confirms, rated>>
           ELSE IF m.raised
           THEN /\ views' = [views EXCEPT ![v] = moved]
                /\ Reply("on_submit_pick_run", v, "error")
                /\ UNCHANGED <<active_matches, now, confirms, rated>>
           ELSE IF DraftOver(moved)
           THEN /\ views' = [views EXCEPT ![v] =
                       [moved EXCEPT !.team1 = Append(moved.team1, moved.available_players[1]),
                                     !.available_players = NoSeq,
                                     !.accepted = Append(@, inflight[i].turn),
                                     !.stopped = TRUE]]
                \* finalize_match, lines 530-537
                /\ now' = t
                /\ active_matches' = Put(active_matches, view.channel, Match(t, v, confirms + 1))
                /\ confirms' = confirms + 1
                /\ rated' = Put(rated, confirms + 1, 0)
                /\ Reply("on_submit_pick_run", v, "complete")
           ELSE /\ views' = [views EXCEPT ![v] =
                       [NextTurn(moved) EXCEPT !.accepted = Append(@, inflight[i].turn)]]
                /\ Reply("on_submit_pick_run", v, "ok")
                /\ UNCHANGED <<active_matches, now, confirms, rated>>
    /\ UNCHANGED <<players, matches, pending_matches, swap_views, names>>

cancel_draft(v, user) ==
    /\ Live(v, "draft")
    /\ IF ~interaction_check(views[v], user)
       THEN Reply("cancel_draft", v, "not_your_turn") /\ UNCHANGED views
       ELSE /\ views' = [views EXCEPT ![v].stopped = TRUE]
            /\ Reply("cancel_draft", v, "ok")
    /\ UNCHANGED <<players, matches, active_matches, pending_matches, swap_views,
                   inflight, names, now, confirms, rated>>

\* A view of timeout=900 (lines 95, 327) that got no interaction for 15 minutes:
\* the library stops dispatching to it and calls on_timeout, which neither view
\* class defines, so nothing else runs
on_timeout(v) ==
    /\ v \in 1..Len(views) /\ ~views[v].stopped
    /\ views' = [views EXCEPT ![v].stopped = TRUE]
    /\ Reply("on_timeout", v, "ok")
    /\ UNCHANGED <<players, matches, active_matches, pending_matches, swap_views,
                   inflight, names, now, confirms, rated>>

(***************************************************************************)
(* The bot: any handler, for any input of the bounded sets.                *)
(***************************************************************************)
Seconds == now..MaxNow

\* The selections the menus of view v offer
SwapChoices(v) ==
    IF Live(v, "teams") THEN SwapSelections(views[v].team1, views[v].team2) ELSE {}
PickChoices(v) ==
    IF Live(v, "draft")
    THEN PickSelections(views[v].available_players, views[v].picks_to_make) ELSE {}

ProposalStep ==
    \/ \E channel \in Arenas, user \in Authors, members \in MemberLists :
          recommend_teams(channel, user, members)
    \/ \E v \in 1..MaxViews, user \in Users, t \in Seconds : confirm_match(v, user, t)
    \/ \E v \in 1..MaxViews, user \in Users : cancel_match_view(v, user)

SwapStep ==
    \/ \E v \in 1..MaxViews, user \in Users : \E sel \in SwapChoices(v) :
          swap_players(v, user, sel)
    \/ \E sv \in 1..MaxSwapViews : confirm_swap(sv)
    \/ \E sv \in 1..MaxSwapViews : cancel_swap(sv)

StartDraft ==
    \E channel \in Arenas, user \in Authors, members \in MemberLists,
       caps \in CaptainArgs, drawn \in RandomCaptains :
       captains_pick(channel, user, members, caps, drawn)

DraftStep ==
    \/ \E v \in 1..MaxViews, user \in Pickers : \E picked \in PickChoices(v) :
          select_players(v, user, picked)
    \/ \E i \in 1..MaxInflight : select_callback(i)
    \/ \E v \in 1..MaxViews, user \in Pickers : on_submit_pick(v, user)
    \/ \E i \in 1..MaxInflight, t \in Seconds : on_submit_pick_run(i, t)
    \/ \E v \in 1..MaxViews, user \in Pickers : cancel_draft(v, user)

ReportStep ==
    \/ \E channel \in Arenas, winner \in Winners : report_match(channel, winner)
    \/ \E i \in 1..MaxInflight, fail \in WriteFailures : report_match_run(i, fail)

AdminStep == \E channel \in Arenas : cancel_match(channel)

EditStep == \E player \in EditIds, rating \in EditRatings : edit_rating(player, rating)

StoreStep ==
    \/ EditStep
    \/ \E player \in RenameIds, name \in Names : Rename(player, name)

ExpireStep == \E v \in 1..MaxViews : on_timeout(v)

Next ==
    \/ ProposalStep \/ SwapStep \/ StartDraft \/ DraftStep \/ ReportStep \/ AdminStep
    \/ StoreStep \/ ExpireStep

Spec == Init /\ [][Next]_vars

(***************************************************************************)
(* Spec restricted to the handlers of one part of a session's life.  Every *)
(* behavior of one of these is a behavior of Spec.                         *)
(***************************************************************************)
\* How sessions start and end: both start commands, the proposal view, the
\* administrator's cancel
NextStart == ProposalStep \/ StartDraft \/ AdminStep
SpecStart == Init /\ [][NextStart]_vars

\* Proposed matches up to their report
NextReport == ProposalStep \/ ReportStep \/ AdminStep
SpecReport == Init /\ [][NextReport]_vars

\* The captain's draft: the start command and the draft view
NextDraft == StartDraft \/ DraftStep
SpecDraft == Init /\ [][NextDraft]_vars

\* Proposals that are confirmed, cancelled or left until they time out
NextExpire == ProposalStep \/ ExpireStep
SpecExpire == Init /\ [][NextExpire]_vars

\* Two arenas side by side: proposals and a draft started with ten distinct
\* members and handled without delay between two presses, the captain whose turn
\* it is picking (first never the second player on offer), matches reported as
\* won with both stores writable, the administrator's cancel
NextArenas ==
    \/ \E channel \in Arenas, user \in Authors :
          recommend_teams(channel, user, [i \in 1..NumPlayers |-> i])
    \/ \E v \in 1..MaxViews, user \in Authors : confirm_match(v, user, now)
    \/ \E v \in 1..MaxViews, user \in Authors : cancel_match_view(v, user)
    \/ \E channel \in Arenas, user \in Authors, drawn \in RandomCaptains :
          captains_pick(channel, user, [i \in 1..NumPlayers |-> i], <<0, 0>>, drawn)
    \/ \E v \in 1..MaxViews, user \in Pickers : \E picked \in PickChoices(v) :
          /\ inflight = << >>
          /\ interaction_check(views[v], user)
          /\ views[v].values = NoSeq
          /\ picked[1] # views[v].available_players[2]
          /\ select_players(v, user, picked)
    \/ \E i \in 1..MaxInflight : select_callback(i)
    \/ \E v \in 1..MaxViews, user \in Pickers :
          /\ inflight = << >>
          /\ Live(v, "draft") /\ views[v].values # NoSeq
          /\ on_submit_pick(v, user)
    \/ \E i \in 1..MaxInflight : on_submit_pick_run(i, now)
    \/ \E channel \in Arenas : inflight = << >> /\ report_match(channel, "blue")
    \/ \E i \in 1..MaxInflight : report_match_run(i, "none")
    \/ AdminStep
SpecArenas == Init /\ [][NextArenas]_vars

\* A proposal and its swaps
NextSwap == ProposalStep \/ SwapStep
SpecSwap == Init /\ [][NextSwap]_vars

\* Matches proposed by ten distinct members, confirmed by their author and reported
\* as won with both stores writable, while the administrator edits ratings
NextEdit ==
    \/ \E channel \in Arenas, user \in Authors :
          recommend_teams(channel, user, [i \in 1..NumPlayers |-> i])
    \/ \E v \in 1..MaxViews, user \in Authors, t \in Seconds : confirm_match(v, user, t)
    \/ \E channel \in Arenas : report_match(channel, "blue")
    \/ \E i \in 1..MaxInflight : report_match_run(i, "none")
    \/ EditStep
SpecEdit == Init /\ [][NextEdit]_vars

\* players.csv under the commands that create, refresh or edit a row, while
\* members change their display names
NextStore ==
    \/ \E channel \in Arenas, user \in Authors, members \in MemberLists :
          recommend_teams(channel, user, members)
    \/ StartDraft
    \/ StoreStep
SpecStore == Init /\ [][NextStore]_vars

(***************************************************************************)
(* balance_teams on its own: a players.csv of ten rows whose ratings are   *)
(* drawn from BalanceRatings, and one call on a list of those players.     *)
(***************************************************************************)
\* The players whose rating is one of three values, and of two or three
MaxWide == 3
MaxVaried == 7
BalanceRatings(i) ==
    IF i <= MaxWide THEN {DEFAULT_RATING, 1600, 1750}
    ELSE IF i <= MaxVaried THEN {DEFAULT_RATING, 1600} ELSE {DEFAULT_RATING}

\* The lists balance_teams is called on: the ten players in two orders, the first
\* player twice, eight players, four players
BalanceLists ==
    {[i \in 1..NumPlayers |-> i],
     [i \in 1..NumPlayers |-> NumPlayers + 1 - i],
     [i \in 1..NumPlayers |-> IF i = NumPlayers THEN 1 ELSE i],
     [i \in 1..(NumPlayers - 2) |-> i],
     [i \in 1..(TeamSize - 1) |-> i]}

InitBalance ==
    /\ players \in {[i \in Ids |-> [NewPlayerRow("a") EXCEPT !.rating = r[i]]] :
                       r \in {q \in [Ids -> {DEFAULT_RATING, 1600, 1750}] :
                                 \A i \in Ids : q[i] \in BalanceRatings(i)}}
    /\ matches = << >>
    /\ active_matches = << >>
    /\ pending_matches = << >>
    /\ views = << >>
    /\ swap_views = << >>
    /\ inflight = << >>
    /\ names = [i \in Ids |-> "a"]
    /\ now = 0
    /\ confirms = 0
    /\ rated = << >>
    /\ last = [op |-> "init", on |-> NoIds, result |-> "ok", teams |-> <<NoIds, NoIds>>]

\* One call balance_teams(players_data); the function has no raise and no error
\* return, so every call returns a pair of lists
call_balance_teams(members) ==
    /\ last.op = "init"
    /\ last' = [op |-> "balance_teams", on |-> members, result |-> "returned",
                teams |-> balance_teams(PlayersData(players, members))]
    /\ UNCHANGED <<players, matches, active_matches, pending_matches, views,
                   swap_views, inflight, names, now, confirms, rated>>

NextBalance == \E members \in BalanceLists : call_balance_teams(members)
SpecBalance == InitBalance /\ [][NextBalance]_vars

(***************************************************************************)
(* /match_history, matchmaking.py:759-783, on its own: a matches.csv of up *)
(* to MaxLog records and one query.  A record keeps its team ids as lists; *)
(* JoinIds is the text line 677 writes for a list and the filter reads.    *)
(***************************************************************************)
MaxLog == 2

DigitChars == <<"0", "1", "2", "3", "4", "5", "6", "7", "8", "9">>

\* str(id), a sequence of characters
RECURSIVE Str(_)
Str(n) ==
    IF n < 10 THEN <<DigitChars[n + 1]>>
    ELSE Str(n \div 10) \o <<DigitChars[(n % 10) + 1]>>

\* ','.join(str(id) for id in ids[1..i])
RECURSIVE JoinIds(_, _)
JoinIds(ids, i) ==
    IF i = 0 THEN << >>
    ELSE IF i = 1 THEN Str(ids[1])
    ELSE JoinIds(ids, i - 1) \o <<",">> \o Str(ids[i])

\* Series.str.contains(pat) for a pattern of digits: pat occurs somewhere in text
Contains(text, pat) ==
    \E k \in 0..(Len(text) - Len(pat)) : SubSeq(text, k + 1, k + Len(pat)) = pat

\* The filter of lines 769-772 on one record
PlayedIn(record, player_id) ==
    \/ Contains(JoinIds(record.team1_ids, Len(record.team1_ids)), Str(player_id))
    \/ Contains(JoinIds(record.team2_ids, Len(record.team2_ids)), Str(player_id))

\* The members who ask for a history, and the teams of the recorded matches
HistoryIds == {1, 2, 10, 11, 12, 21}
BlueTeams == {<<1, 2, 3, 4, 5>>, <<12, 2, 3, 4, 5>>}
RedTeams == {<<6, 7, 8, 9, 10>>, <<6, 7, 8, 9, 21>>}

\* The logs reports can have written: timestamps never decrease along the file
HistoryLogs ==
    UNION {{[k \in 1..n |-> [match_id |-> k, winner |-> "Blue Team",
                             team1_ids |-> c[k][1], team2_ids |-> c[k][2],
                             timestamp |-> c[k][3], serial |-> k]] :
               c \in {d \in [1..n -> BlueTeams \X RedTeams \X (0..MaxNow)] :
                         \A k \in 1..(n - 1) : d[k][3] <= d[k + 1][3]}} :
           n \in 0..MaxLog}

InitHistory ==
    /\ players = << >>
    /\ matches \in HistoryLogs
    /\ active_matches = << >>
    /\ pending_matches = << >>
    /\ views = << >>
    /\ swap_views = << >>
    /\ inflight = << >>
    /\ names = [i \in Ids |-> "a"]
    /\ now = MaxNow
    /\ confirms = 0
    /\ rated = << >>
    /\ last = [op |-> "init", on |-> 0, result |-> "ok", records |-> NoSeq]

\* player_matches: the records the filter keeps, sorted by timestamp, latest first.
\* sort_values uses quicksort, which promises no order among equal timestamps:
\* order is any arrangement of the kept records whose timestamps never increase.
match_history(player, order) ==
    /\ Range(order) = {k \in 1..Len(matches) : PlayedIn(matches[k], player)}
    /\ \A i, j \in 1..Len(order) :
          i < j => /\ order[i] # order[j]
                   /\ matches[order[i]].timestamp >= matches[order[j]].timestamp
    /\ last' = [op |-> "match_history", on |-> player,
                result |-> IF order = NoSeq THEN "empty" ELSE "ok",
                records |-> [i \in 1..Len(order) |-> matches[order[i]]]]
    /\ UNCHANGED <<players, matches, active_matches, pending_matches, views,
                   swap_views, inflight, names, now, confirms, rated>>

NextHistory ==
    \E player \in HistoryIds :
        \E order \in UNION {[1..n -> 1..MaxLog] : n \in 0..MaxLog} :
            match_history(player, order)
SpecHistory == InitHistory /\ [][NextHistory]_vars

(***************************************************************************)
(* rating_system.py on its own: a players.csv whose ten rows have a rating *)
(* of BaseRatings and a deviation of Deviations, one call of               *)
(* new_team_ratings on players 1-5 against players 6-10, and calls of      *)
(* rating_change on equal ratings and deviations.                          *)
(***************************************************************************)
BaseRatings == {1400, DEFAULT_RATING, 1700}
\* Deviations reports leave behind: 350 becomes 290, 247, 216, 192, ... 101, ... and
\* stays at 68
Deviations == {68, 101, 192, DEFAULT_DEVIATION}

\* Every row alike but for the rating of players 1 and 6 and the deviation of
\* player 2
InitRating ==
    /\ players \in {[i \in Ids |-> [display_name |-> "a",
                                    rating |-> IF i = 1 THEN q[3] ELSE IF i = 6 THEN q[4] ELSE q[1],
                                    deviation |-> IF i = 2 THEN q[5] ELSE q[2]]] :
                       q \in BaseRatings \X Deviations \X BaseRatings \X BaseRatings \X Deviations}
    /\ matches = << >>
    /\ active_matches = << >>
    /\ pending_matches = << >>
    /\ views = << >>
    /\ swap_views = << >>
    /\ inflight = << >>
    /\ names = [i \in Ids |-> "a"]
    /\ now = 0
    /\ confirms = 0
    /\ rated = << >>
    /\ last = [op |-> "init", on |-> <<0, 0, 0>>, result |-> "ok"]

\* ratings_team_1/2 of lines 651-652 for players 1-5 and 6-10
StoredTeam(first) ==
    [i \in 1..TeamSize |-> [rating |-> players[first + i - 1].rating,
                            deviation |-> players[first + i - 1].deviation]]

call_new_team_ratings(score) ==
    /\ last.op = "init"
    /\ last' = [op |-> "new_team_ratings", on |-> <<0, 0, score>>,
                result |-> new_team_ratings(StoredTeam(1), StoredTeam(TeamSize + 1), score)]
    /\ UNCHANGED <<players, matches, active_matches, pending_matches, views,
                   swap_views, inflight, names, now, confirms, rated>>

\* rating_change(r, d, r, d, score)
call_rating_change(r, d, score) ==
    /\ last.op = "init"
    /\ last' = [op |-> "rating_change", on |-> <<r, d, score>>,
                result |-> rating_change(5 * r, d, 5 * r, 5 * d, score)]
    /\ UNCHANGED <<players, matches, active_matches, pending_matches, views,
                   swap_views, inflight, names, now, confirms, rated>>

NextRating ==
    \/ \E score \in {0, 1} : call_new_team_ratings(score)
    \/ \E r \in BaseRatings, d \in Deviations, score \in {0, 1} : call_rating_change(r, d, score)
SpecRating == InitRating /\ [][NextRating]_vars

(***************************************************************************)
(* Properties.                                                             *)
(***************************************************************************)
\* The live proposals of an arena: the proposal views still accepting presses
LiveProposals(channel) ==
    {v \in 1..Len(views) : Live(v, "teams") /\ views[v].channel = channel}

\* C1: after any sequence of requests every arena holds at most one live (Pending
\* or Active) session; a ProposeTeams on an arena that holds a Pending proposal
\* creates no second live proposal.
C1_OneLiveSessionPerArena ==
    \A channel \in Arenas :
        Cardinality(LiveProposals(channel))
            + (IF channel \in DOMAIN active_matches THEN 1 ELSE 0) <= 1

StartOps == {"recommend_teams", "captains_pick"}

\* C2: a ProposeTeams or StartDraft on an arena whose registry holds an Active
\* match is answered with a conflict and changes neither the registries, nor the
\* views, nor PlayerStore, nor MatchStore.
C2_ConflictChangesNothing ==
    [][\A channel \in DOMAIN active_matches :
          (last'.op \in StartOps /\ last'.on = channel)
              => /\ last'.result = "conflict"
                 /\ UNCHANGED <<active_matches, pending_matches, views, players, matches>>]_vars

\* C2, witness: a /captains_pick answered with a conflict on an arena with an
\* Active match
C2_DraftRefusedOnActiveArena ==
    /\ last.op = "captains_pick"
    /\ last.result = "conflict"
    /\ last.on \in DOMAIN active_matches

RemovalOps == {"report_match_run", "cancel_match"}

\* C3: an Active match leaves the registry (or is replaced in it) only by a
\* ReportResult or an administrator's CancelMatch on its arena.
C3_ActiveLeavesByReportOrCancel ==
    [][\A channel \in DOMAIN active_matches :
          (channel \notin DOMAIN active_matches'
               \/ active_matches'[channel] # active_matches[channel])
              => (last'.op \in RemovalOps /\ last'.on = channel)]_vars

\* The records MatchStore holds for the match confirmed as number serial
RecordsOf(serial) == {i \in 1..Len(matches) : matches[i].serial = serial}

\* C4: for every confirmed match, the ratings were written if and only if a record
\* with a winning team was appended.
C4_RatingsAndRecordTogether ==
    \A serial \in DOMAIN rated :
        (rated[serial] > 0)
            <=> (\E i \in RecordsOf(serial) : matches[i].winner # "Abandoned")

\* C5: a ReportResult that fails on a store write leaves the arena's Active match
\* in the registry as it was.
C5_FailedReportKeepsMatch ==
    [][\A channel \in DOMAIN active_matches :
          (last'.op = "report_match_run" /\ last'.on = channel
               /\ last'.result = "write_failed")
              => /\ channel \in DOMAIN active_matches'
                 /\ active_matches'[channel] = active_matches[channel]]_vars

\* C6: for one confirmed match at most one record is ever appended and its
\* ratings are written at most once, however its reports interleave.
C6_OneOutcomePerMatch ==
    \A serial \in DOMAIN rated :
        /\ rated[serial] <= 1
        /\ Cardinality(RecordsOf(serial)) <= 1

\* C6, witness: the only match ever confirmed has its record, and a second report,
\* which passed the existence check before the first one popped the match, found
\* the registry empty
C6_SecondReportFoundNothing ==
    /\ confirms = 1
    /\ Len(matches) = 1
    /\ last.op = "report_match_run"
    /\ last.result = "key_error"

CurrentCaptain(view) == view.captains[view.current_picker_index + 1]

\* C7: in a draft whose current captain has a positive id, "Submit Pick" pressed
\* by anybody else is answered not-your-turn, and neither the draft nor the
\* handlers in flight change.
C7_OnlyCurrentCaptainSubmits ==
    [][\A v \in 1..Len(views), user \in Pickers :
          (/\ Live(v, "draft")
           /\ CurrentCaptain(views[v]) > 0
           /\ user # CurrentCaptain(views[v])
           /\ on_submit_pick(v, user))
              => /\ last'.result = "not_your_turn"
                 /\ UNCHANGED <<views, inflight>>]_vars

\* C7, witness: the other captain pressed "Submit Pick" and was told to wait
C7_OtherCaptainRefused ==
    /\ last.op = "on_submit_pick"
    /\ last.result = "not_your_turn"
    /\ Live(last.on, "draft")
    /\ CurrentCaptain(views[last.on]) > 0

\* C8: no two accepted picks of a draft passed the turn check in the same turn.
C8_OneAcceptedPickPerTurn ==
    \A v \in 1..Len(views) :
        \A j, k \in 1..Len(views[v].accepted) :
            j # k => views[v].accepted[j] # views[v].accepted[k]

\* A selection the menu of the current turn cannot have produced
BadPick(view) ==
    /\ view.values # NoSeq
    /\ \/ Len(view.values) # view.picks_to_make
       \/ ~(Range(view.values) \subseteq Range(view.available_players))

\* C9: a submission whose ids are not all in the pool, or whose count differs from
\* picks_to_make, is refused and leaves the draft as it was.
C9_BadPickRefused ==
    [][\A v \in 1..Len(views) :
          (last'.op = "on_submit_pick_run" /\ last'.on = v /\ BadPick(views[v]))
              => /\ last'.result = "error"
                 /\ views'[v] = views[v]]_vars

\* picksRequired of a turn
Schedule(turn) == IF turn \in {1, 5} THEN 1 ELSE 2

\* C10: a draft starts at turn 1 with the first captain and one pick; every accepted
\* pick that does not complete the draft adds one to the turn, flips the captain
\* and sets picks_to_make to the schedule's value for the new turn.
C10_TurnSchedule ==
    [][\A v \in 1..Len(views') :
          /\ (v > Len(views) /\ views'[v].kind = "draft")
                 => /\ views'[v].pick_turn = 1
                    /\ views'[v].current_picker_index = 0
                    /\ views'[v].picks_to_make = 1
          /\ (v <= Len(views) /\ last'.op = "on_submit_pick_run" /\ last'.on = v
                  /\ last'.result = "ok")
                 => /\ views'[v].pick_turn = views[v].pick_turn + 1
                    /\ views'[v].current_picker_index = 1 - views[v].current_picker_index
                    /\ views'[v].pick_turn \in 2..5
                           => views'[v].picks_to_make = Schedule(views'[v].pick_turn)]_vars

\* C10, witness: the third pick was accepted and the draft is at turn 4, two picks
\* to make by the second captain
C10_FourthTurnReached ==
    /\ last.op = "on_submit_pick_run"
    /\ last.result = "ok"
    /\ Live(last.on, "draft")
    /\ views[last.on].pick_turn = 4
    /\ views[last.on].current_picker_index = 1
    /\ views[last.on].picks_to_make = 2

\* The draft views, and the match a completed draft left in the registry
Drafts == {v \in 1..Len(views) : views[v].kind = "draft"}
Completed(v) ==
    \E channel \in DOMAIN active_matches : active_matches[channel].view = v

\* C11: a draft in its fourth turn whose earlier picks were of 1, 2 and 2 players
\* (team1 has 4 members, team2 has 3, three are left) and whose fourth pick of 2
\* players is accepted completes on that pick: the turn stays 4, the player left
\* over joins team1, the pool is empty, both teams have 5 members and the match is
\* in the registry.
C11_FourthPickCompletes ==
    [][\A v \in Drafts :
          (/\ last'.op = "on_submit_pick_run" /\ last'.on = v
           /\ last'.result \in {"ok", "complete"}
           /\ views[v].pick_turn = 4
           /\ Len(views[v].team1) = 4 /\ Len(views[v].team2) = 3
           /\ Len(views[v].available_players) = 3
           /\ Len(views[v].values) = 2)
              => /\ last'.result = "complete"
                 /\ views'[v].pick_turn = 4
                 /\ views'[v].available_players = NoSeq
                 /\ Len(views'[v].team1) = TeamSize /\ Len(views'[v].team2) = TeamSize
                 /\ \A p \in Range(views[v].available_players) \ Range(views[v].values) :
                        views'[v].team1[TeamSize] = p
                 /\ views[v].channel \in DOMAIN active_matches'
                 /\ active_matches'[views[v].channel].view = v]_vars

\* A draft completed by its fourth accepted pick
C11_DraftCompleted ==
    \E v \in Drafts :
        /\ last.op = "on_submit_pick_run" /\ last.on = v /\ last.result = "complete"
        /\ Len(views[v].accepted) = 4
        /\ Len(views[v].team1) = TeamSize /\ Len(views[v].team2) = TeamSize

\* C12: in every state of a draft team1, team2 and the pool hold no player twice,
\* are pairwise disjoint and together are the ten players the draft was started
\* with; each captain is in their own team; a completed draft has assigned the 8
\* players that are not captains.
C12_DraftPartition ==
    \A v \in Drafts :
        LET t1 == Range(views[v].team1)
            t2 == Range(views[v].team2)
            pool == Range(views[v].available_players)
        IN  /\ Cardinality(t1) = Len(views[v].team1)
            /\ Cardinality(t2) = Len(views[v].team2)
            /\ Cardinality(pool) = Len(views[v].available_players)
            /\ t1 \cap t2 = {} /\ t1 \cap pool = {} /\ t2 \cap pool = {}
            /\ t1 \cup t2 \cup pool = DOMAIN views[v].players_data
            /\ Cardinality(DOMAIN views[v].players_data) = NumPlayers
            /\ views[v].captains[1] \in t1 /\ views[v].captains[2] \in t2
            /\ Completed(v) =>
                   Cardinality((t1 \cup t2) \ Range(views[v].captains)) = NumPlayers - 2

\* A draft under way: players picked into both teams, others still in the pool
C12_PicksOnBothSides ==
    \E v \in Drafts :
        /\ Len(views[v].team1) >= 2 /\ Len(views[v].team2) >= 3
        /\ views[v].available_players # NoSeq

\* C13: a report of "abandoned" that finds the match in the registry and whose
\* write to matches.csv succeeds appends exactly one record, with winner Abandoned
\* and the match's id and team id lists, changes no row of players.csv and removes
\* the match from the registry.
C13_AbandonedRecordsOnly ==
    [][\A i \in 1..Len(inflight) :
          (/\ inflight[i].op = "report_match" /\ inflight[i].winner = "abandoned"
           /\ inflight[i].channel \in DOMAIN active_matches
           /\ inflight' = RemoveAt(inflight, i)
           /\ last'.op = "report_match_run" /\ last'.on = inflight[i].channel
           /\ last'.result # "write_failed")
              => LET channel == inflight[i].channel
                     match_info == active_matches[channel]
                     n == Len(matches) + 1
                 IN  /\ Len(matches') = n
                     /\ SubSeq(matches', 1, n - 1) = matches
                     /\ matches'[n].winner = "Abandoned"
                     /\ matches'[n].match_id = match_info.match_id
                     /\ matches'[n].team1_ids = views[match_info.view].team1
                     /\ matches'[n].team2_ids = views[match_info.view].team2
                     /\ players' = players
                     /\ rated' = rated
                     /\ channel \notin DOMAIN active_matches']_vars

\* An abandoned match was recorded
C13_AbandonedRecorded ==
    /\ last.op = "report_match_run" /\ last.result = "ok"
    /\ matches # << >>
    /\ matches[Len(matches)].winner = "Abandoned"
    /\ last.on \notin DOMAIN active_matches

\* C14: /cancel_match on an arena with an Active match removes that match and
\* nothing else: the other arenas' matches, the pending proposals, the views,
\* players.csv and matches.csv are as before.
C14_AdminCancelRemovesOnlyThatMatch ==
    [][\A channel \in Arenas :
          (last'.op = "cancel_match" /\ last'.on = channel
           /\ channel \in DOMAIN active_matches)
              => /\ last'.result = "ok"
                 /\ DOMAIN active_matches' = DOMAIN active_matches \ {channel}
                 /\ \A other \in DOMAIN active_matches' :
                        active_matches'[other] = active_matches[other]
                 /\ players' = players /\ matches' = matches
                 /\ pending_matches' = pending_matches
                 /\ views' = views /\ swap_views' = swap_views]_vars

\* A match was cancelled while the other arena had one
C14_CancelledBesideAnother ==
    /\ last.op = "cancel_match" /\ last.result = "ok"
    /\ last.on \notin DOMAIN active_matches
    /\ \E other \in Arenas : other # last.on /\ other \in DOMAIN active_matches

Proposals == {v \in 1..Len(views) : views[v].kind = "teams"}
SwapConfirmed(sv) ==
    /\ sv \in 1..Len(swap_views)
    /\ ~swap_views[sv].stopped /\ swap_views'[sv].stopped
    /\ last'.op = "confirm_swap" /\ last'.result = "ok"

\* C16: after any swaps the two teams of a proposal hold no player twice, are
\* disjoint, have five players each and together are the ten proposed players; a
\* swap of p1 (in team1) and p2 (in team2) moves exactly p1 to team2 and p2 to
\* team1.
C16_SwapKeepsTeams ==
    [][/\ \A v \in 1..Len(views') : views'[v].kind = "teams" =>
             LET t1 == Range(views'[v].team1)
                 t2 == Range(views'[v].team2)
             IN  /\ Len(views'[v].team1) = TeamSize /\ Cardinality(t1) = TeamSize
                 /\ Len(views'[v].team2) = TeamSize /\ Cardinality(t2) = TeamSize
                 /\ t1 \cap t2 = {}
                 /\ t1 \cup t2 = DOMAIN views'[v].players_data
       /\ \A sv \in 1..Len(swap_views) :
             LET v == swap_views[sv].original_view
                 p1 == swap_views[sv].p1
                 p2 == swap_views[sv].p2
             IN  (/\ SwapConfirmed(sv)
                  /\ p1 \in Range(views[v].team1) /\ p2 \in Range(views[v].team2))
                     => /\ Range(views'[v].team1) = (Range(views[v].team1) \ {p1}) \cup {p2}
                        /\ Range(views'[v].team2) = (Range(views[v].team2) \ {p2}) \cup {p1}
                        /\ \A other \in Proposals \ {v} : views'[other] = views[other]]_vars

\* Two swaps were made on one proposal
C16_SwappedTwice ==
    \E v \in Proposals :
        /\ Len(swap_views) = 2
        /\ \A sv \in 1..2 : swap_views[sv].stopped /\ swap_views[sv].original_view = v
        /\ last.op = "confirm_swap" /\ last.result = "ok"
        /\ Cardinality(Range(views[v].team1) \cap {1, 2, 3, 4, 5}) = 3

\* C17: "Confirm Swap" with a selection that is not one current member of team1
\* and one current member of team2 is answered with an error and leaves the teams
\* as they were.
C17_StaleSwapRefused ==
    [][\A sv \in 1..Len(swap_views) :
          LET v == swap_views[sv].original_view
              p1 == swap_views[sv].p1
              p2 == swap_views[sv].p2
          IN  (/\ ~swap_views[sv].stopped
               /\ last'.op = "confirm_swap" /\ last'.on = v
               /\ swap_views'[sv] # swap_views[sv] \/ last'.result = "empty"
               /\ ~(p1 \in Range(views[v].team1) /\ p2 \in Range(views[v].team2)))
                  => /\ last'.result # "ok"
                     /\ views'[v] = views[v]]_vars

\* C18: while a match stays in the registry its teams stay as they were confirmed.
C18_ActiveTeamsFrozen ==
    [][\A channel \in DOMAIN active_matches :
          (/\ channel \in DOMAIN active_matches'
           /\ active_matches'[channel] = active_matches[channel])
              => LET v == active_matches[channel].view
                 IN  /\ Range(views'[v].team1) = Range(views[v].team1)
                     /\ Range(views'[v].team2) = Range(views[v].team2)]_vars

\* The step in which the report suspended as inflight[i] resumes, finds its match,
\* and saves the new ratings of a decided match
RatedReport(i) ==
    /\ i \in 1..Len(inflight)
    /\ inflight[i].op = "report_match" /\ inflight[i].winner # "abandoned"
    /\ inflight[i].channel \in DOMAIN active_matches
    /\ inflight' = RemoveAt(inflight, i)
    /\ last'.op = "report_match_run" /\ last'.on = inflight[i].channel
    /\ rated' # rated

\* What new_team_ratings returns for the values captured in view v when its teams
\* were formed
CapturedUpdate(v, winner) ==
    new_team_ratings([j \in 1..Len(views[v].team1) |-> views[v].players_data[views[v].team1[j]]],
                     [j \in 1..Len(views[v].team2) |-> views[v].players_data[views[v].team2[j]]],
                     IF winner = "blue" THEN 1 ELSE 0)

\* The rows of a team in store are the captured ratings plus the deltas of rows
CapturedPlusDelta(store, v, team, rows) ==
    \A j \in 1..Len(team) :
        /\ store[team[j]].rating =
               RoundFifths(5 * views[v].players_data[team[j]].rating + rows[j].delta5)
        /\ store[team[j]].deviation = rows[j].deviation

CapturedPlusDeltas(store, v, new) ==
    /\ CapturedPlusDelta(store, v, views[v].team1, new.team1)
    /\ CapturedPlusDelta(store, v, views[v].team2, new.team2)

\* The rows of a team in after are those in before plus the deltas of rows
StoredPlusDelta(before, after, team, rows) ==
    \A j \in 1..Len(team) :
        after[team[j]].rating = RoundFifths(5 * before[team[j]].rating + rows[j].delta5)

StoredPlusDeltas(before, after, v, new) ==
    /\ StoredPlusDelta(before, after, views[v].team1, new.team1)
    /\ StoredPlusDelta(before, after, views[v].team2, new.team2)

\* C19: the deltas a report applies are those of the ratings and deviations
\* captured when the teams were formed, whatever players.csv holds at the report
\* (after /edit_rating on a participant, after a report in the other arena).
C19_DeltasFromCapturedValues ==
    [][\A i \in 1..Len(inflight) :
          RatedReport(i) =>
              LET v == active_matches[inflight[i].channel].view
              IN  CapturedPlusDeltas(players', v, CapturedUpdate(v, inflight[i].winner))]_vars

\* The first proposal was reported after player 1's rating had been edited: the
\* second proposal, never confirmed, captured the edited rating, and the report
\* has since overwritten it
C19_ReportedAfterEdit ==
    /\ last.op = "report_match_run" /\ last.result = "ok"
    /\ Len(views) = 2 /\ confirms = 1
    /\ views[1].stopped /\ ~views[2].stopped
    /\ views[1].players_data[1].rating = DEFAULT_RATING
    /\ views[2].players_data[1].rating \in EditRatings
    /\ rated[1] = 1
    /\ players[1].rating \notin EditRatings

\* C20: a report adds each participant's delta to the rating players.csv holds
\* for them just before the report.
C20_DeltaAddedToStoredRating ==
    [][\A i \in 1..Len(inflight) :
          RatedReport(i) =>
              LET v == active_matches[inflight[i].channel].view
              IN  StoredPlusDeltas(players, players', v,
                                   CapturedUpdate(v, inflight[i].winner))]_vars


\* C21: /report_match and the administrator's /cancel_match in an arena that has no
\* active match answer "not found" and change neither the registry nor players.csv
\* nor matches.csv, an arena holding only an unconfirmed proposal included; a
\* record is written only for an arena whose match is active.
C21_NoActiveMatchNotFound ==
    [][/\ \A channel \in Arenas :
            channel \notin DOMAIN active_matches =>
                /\ \A winner \in Winners :
                      report_match(channel, winner) =>
                          /\ last'.result = "not_found"
                          /\ UNCHANGED <<players, matches, active_matches,
                                         pending_matches, inflight>>
                /\ cancel_match(channel) =>
                      /\ last'.result = "not_found"
                      /\ UNCHANGED <<players, matches, active_matches,
                                     pending_matches, inflight>>
       /\ matches' # matches => last'.on \in DOMAIN active_matches]_vars

\* A report was refused in an arena whose proposal is still unconfirmed
C21_ReportRefusedOnPending ==
    /\ last.op = "report_match" /\ last.result = "not_found"
    /\ last.on \in DOMAIN pending_matches
    /\ last.on \notin DOMAIN active_matches
    /\ matches = << >>

\* The sum of the stored ratings of a set of players
RECURSIVE RatingSum(_)
RatingSum(S) ==
    IF S = {} THEN 0
    ELSE LET id == CHOOSE x \in S : TRUE IN players[id].rating + RatingSum(S \ {id})

\* Five times the difference of the average ratings of two teams of five
Gap(A, B) == Abs(RatingSum(A) - RatingSum(B))

\* The call was made on ten distinct players
BalancedTen ==
    /\ last.op = "balance_teams"
    /\ Len(last.on) = NumPlayers
    /\ Cardinality(Range(last.on)) = NumPlayers

\* C22: for ten distinct players, the difference of the average ratings of the two
\* teams balance_teams returns is at most that of every split of the ten into two
\* teams of five.
C22_SmallestGap ==
    BalancedTen =>
        \A S \in SUBSET Ids :
            Cardinality(S) = TeamSize =>
                Gap(Range(last.teams[1]), Range(last.teams[2])) <= Gap(S, Ids \ S)

\* A call whose best split is not an even one and is not the first combination
C22_UnevenBestSplit ==
    /\ BalancedTen
    /\ Gap(Range(last.teams[1]), Range(last.teams[2])) > 0
    /\ last.on[1] = 1
    /\ last.teams[1] # <<1, 2, 3, 4, 5>>

\* C23: for ten distinct players, the two teams balance_teams returns have five
\* players each, share none, and together are the ten players of the input.
C23_TeamsPartitionInput ==
    BalancedTen =>
        /\ Len(last.teams[1]) = TeamSize /\ Cardinality(Range(last.teams[1])) = TeamSize
        /\ Len(last.teams[2]) = TeamSize /\ Cardinality(Range(last.teams[2])) = TeamSize
        /\ Range(last.teams[1]) \cap Range(last.teams[2]) = {}
        /\ Range(last.teams[1]) \cup Range(last.teams[2]) = Range(last.on)

\* Ten players of differing ratings, listed from the last to the first, were split
C23_ReversedListSplit ==
    /\ BalancedTen
    /\ last.on[1] = NumPlayers
    /\ players[1].rating # players[2].rating
    /\ Len(last.teams[2]) = TeamSize

\* The positions in the input list of the members of a returned team
Positions(team) == {i \in 1..Len(last.on) : last.on[i] \in Range(team)}

\* C24: balance_teams returns what a second call on the same list returns, its
\* teams keep the order of the input, and of the combinations of five positions
\* with the smallest difference it returns the first in lexicographic order: where
\* the returned combination and another of the same difference part, the smaller
\* position is in the returned one.
C24_FirstOfBestCombinations ==
    BalancedTen =>
        /\ last.teams = balance_teams(PlayersData(players, last.on))
        /\ \A t \in 1..2 : \A i, j \in 1..Len(last.teams[t]) :
              i < j => \E a, b \in 1..NumPlayers :
                          a < b /\ last.on[a] = last.teams[t][i] /\ last.on[b] = last.teams[t][j]
        /\ \A S \in SUBSET (1..NumPlayers) :
              (/\ Cardinality(S) = TeamSize
               /\ S # Positions(last.teams[1])
               /\ Gap({last.on[i] : i \in S}, Ids \ {last.on[i] : i \in S})
                    = Gap(Range(last.teams[1]), Range(last.teams[2])))
              => LET apart == (S \ Positions(last.teams[1])) \cup (Positions(last.teams[1]) \ S)
                 IN  (CHOOSE x \in apart : \A y \in apart : x <= y) \in Positions(last.teams[1])

\* A call on the reversed list where a third combination is as good as the returned
\* one and its complement
C24_TieBroken ==
    /\ BalancedTen
    /\ last.on[1] = NumPlayers
    /\ \E S \in SUBSET Ids :
          /\ Cardinality(S) = TeamSize
          /\ S # Range(last.teams[1]) /\ S # Range(last.teams[2])
          /\ Gap(S, Ids \ S) = Gap(Range(last.teams[1]), Range(last.teams[2]))

\* C25: balance_teams answers with an error, not with teams, when it is given fewer
\* than ten players or a list that holds a player twice.
C25_BalancerRejects ==
    (/\ last.op = "balance_teams"
     /\ \/ Len(last.on) < NumPlayers
        \/ Cardinality(Range(last.on)) < Len(last.on))
    => last.result = "rejected"

\* C26: /recommend_teams and /captains_pick given ten arguments that are not ten
\* distinct ids are refused and change nothing: no row of players.csv is created
\* or renamed, and no proposal, draft or active match is created.
C26_RepeatedPlayerRefused ==
    [][\A channel \in Arenas, user \in Authors, members \in MemberLists :
          Cardinality(Range(members)) # NumPlayers =>
              /\ recommend_teams(channel, user, members) =>
                    /\ last'.result \in {"invalid", "conflict"}
                    /\ UNCHANGED <<players, matches, active_matches, pending_matches,
                                   views, swap_views, inflight>>
              /\ \A caps \in CaptainArgs, drawn \in RandomCaptains :
                    captains_pick(channel, user, members, caps, drawn) =>
                        /\ last'.result \in {"invalid", "conflict"}
                        /\ UNCHANGED <<players, matches, active_matches, pending_matches,
                                       views, swap_views, inflight>>]_vars

\* A draft of a list naming a player twice was refused in an arena without a match
\* when players.csv held a row whose member had since changed their display name
C26_DraftOfRepeatedPlayerRefused ==
    /\ last.op = "captains_pick" /\ last.result = "invalid"
    /\ last.on \notin DOMAIN active_matches
    /\ DOMAIN players = Ids
    /\ \E id \in Ids : players[id].display_name # names[id]

\* What one call get_or_create_player(id, name) does to a store: a row with the
\* default rating and deviation added for an id without one, and for an id with a
\* row nothing but the display name of that row changed
GetOrCreateContract(store) ==
    \A id \in Ids, name \in Names :
        LET after == get_or_create_player(store, id, name)
        IN  /\ after[id].display_name = name
            /\ \A other \in DOMAIN store :
                  /\ after[other].rating = store[other].rating
                  /\ after[other].deviation = store[other].deviation
                  /\ other # id => after[other] = store[other]
            /\ IF id \in DOMAIN store
               THEN DOMAIN after = DOMAIN store
               ELSE /\ DOMAIN after = DOMAIN store \cup {id}
                    /\ after[id].rating = DEFAULT_RATING
                    /\ after[id].deviation = DEFAULT_DEVIATION

C28_EditSetsOnlyTheRating ==
    [][\A player \in EditIds, rating \in EditRatings :
          edit_rating(player, rating) =>
              /\ DOMAIN players' = DOMAIN players \cup {player}
              /\ players'[player].rating = rating
              /\ players'[player].deviation =
                    (IF player \in DOMAIN players THEN players[player].deviation
                     ELSE DEFAULT_DEVIATION)
              /\ \A other \in DOMAIN players \ {player} : players'[other] = players[other]
              /\ UNCHANGED <<matches, active_matches, pending_matches>>]_vars

\* The rating of a player was edited after a reported match had changed their
\* rating and deviation, while another match was active
C28_EditedAfterReport ==
    /\ last.op = "edit_rating"
    /\ players[1].rating \in EditRatings
    /\ players[1].deviation # DEFAULT_DEVIATION
    /\ players[2].rating # DEFAULT_RATING
    /\ Len(matches) = 1
    /\ active_matches # << >>

\* C29: matches.csv only grows at its end: on every step the records held before
\* are the first records held after, unchanged and in the same order, and a step
\* that changes the file is a report that appends one record.
C29_MatchLogAppendOnly ==
    [][/\ Len(matches') >= Len(matches)
       /\ \A k \in 1..Len(matches) : matches'[k] = matches[k]
       /\ matches' # matches =>
             /\ last'.op = "report_match_run"
             /\ Len(matches') = Len(matches) + 1
             /\ matches'[Len(matches')].winner \in {"Blue Team", "Red Team", "Abandoned"}]_vars

\* A match was reported won after another had been recorded abandoned
C29_SecondRecordAppended ==
    /\ last.op = "report_match_run" /\ last.result = "ok"
    /\ Len(matches) = 2
    /\ matches[1].winner = "Abandoned"
    /\ matches[2].winner = "Blue Team"

\* C30: /match_history for a player returns exactly the records in which the
\* player's id is an element of team1_ids or team2_ids, the latest first; a record
\* is never returned for a player who was not in the match.
C30_HistoryOfParticipantOnly ==
    last.op = "match_history" =>
        /\ Range(last.records) =
              {matches[k] : k \in {j \in 1..Len(matches) :
                                      \/ last.on \in Range(matches[j].team1_ids)
                                      \/ last.on \in Range(matches[j].team2_ids)}}
        /\ \A i, j \in 1..Len(last.records) :
              i < j => last.records[i].timestamp >= last.records[j].timestamp

\* C32: "Cancel Draft" in a draft that is not over changes neither registry nor
\* players.csv nor matches.csv, and a draft that was cancelled never becomes an
\* active match.
C32_CancelledDraftStaysCancelled ==
    [][/\ \A v \in 1..Len(views), user \in Pickers :
            cancel_draft(v, user) =>
                UNCHANGED <<players, matches, active_matches, pending_matches>>
       /\ \A channel \in DOMAIN active_matches' :
            (channel \notin DOMAIN active_matches
               \/ active_matches'[channel] # active_matches[channel])
            => ~views[active_matches'[channel].view].stopped]_vars

\* C31: when a proposal that is the pending entry of its arena times out, the arena
\* has no pending entry afterwards, and players.csv and matches.csv are unchanged.
C31_TimeoutEvictsProposal ==
    [][\A v \in 1..Len(views) :
          (/\ on_timeout(v)
           /\ views[v].kind = "teams"
           /\ views[v].channel \in DOMAIN pending_matches
           /\ pending_matches[views[v].channel].view = v)
          => /\ views[v].channel \notin DOMAIN pending_matches'
             /\ UNCHANGED <<players, matches>>]_vars

\* C33: when the ten players have one rating and one deviation and team 1 won,
\* new_team_ratings gives the five of team 1 one positive delta and the five of
\* team 2 one negative delta, the delta of rating_change for the score 0.
C33_EqualTeamsEqualDeltas ==
    (/\ last.op = "new_team_ratings" /\ last.on[3] = 1
     /\ \A i \in Ids : /\ players[i].rating = players[1].rating
                       /\ players[i].deviation = players[1].deviation)
    => /\ \A i \in 1..TeamSize :
             /\ last.result.team1[i].delta5 = last.result.team1[1].delta5
             /\ last.result.team2[i].delta5 = last.result.team2[1].delta5
       /\ last.result.team1[1].delta5 > 0
       /\ last.result.team2[1].delta5 < 0
       /\ last.result.team2[1].delta5 =
             rating_change(5 * players[1].rating, players[1].deviation,
                           5 * players[1].rating, 5 * players[1].deviation, 0)[1]

\* Ten players of rating 1700 and deviation 101 were rated for a win of team 1
C33_EqualTeamsRated ==
    /\ last.op = "new_team_ratings" /\ last.on[3] = 1
    /\ \A i \in Ids : players[i].rating = 1700 /\ players[i].deviation = 101
    /\ last.result.team1[5].delta5 > 0
    /\ last.result.team2[5].delta5 < 0

\* C34: rating_change(r, d, r, d, 1) returns a rating delta above 0 and
\* rating_change(r, d, r, d, 0) one below 0, for every rating of BaseRatings and
\* every deviation of Deviations.
C34_WinRaisesLossLowers ==
    last.op = "rating_change" =>
        IF last.on[3] = 1 THEN last.result[1] > 0 ELSE last.result[1] < 0

\* The loss of a player of the smallest deviation was computed
C34_LossAtSmallestDeviation ==
    /\ last.op = "rating_change"
    /\ last.on = <<1700, 68, 0>>
    /\ last.result[1] < 0

\* C35: after any reports and rating edits every stored deviation is at least 0.
C35_DeviationNeverNegative ==
    \A id \in DOMAIN players : players[id].deviation >= 0

\* Two reports have lowered every deviation twice, and a rating was edited
C35_DeviationLoweredTwice ==
    /\ last.op = "report_match_run" /\ last.result = "ok"
    /\ Len(matches) = 2
    /\ \A id \in Ids : players[id].deviation > 0 /\ players[id].deviation < 290
    /\ \E id \in Ids : players[id].rating # players[2].rating

\* C39: the rating delta new_team_ratings gives a player is that of rating_change on
\* the average rating of the player's team, the player's own deviation, and the
\* average rating and deviation of the other team; teammates of equal deviation
\* get equal deltas whatever their own ratings.
C39_DeltaIgnoresOwnRating ==
    last.op = "new_team_ratings" =>
        /\ \A i, j \in 1..TeamSize :
              /\ StoredTeam(1)[i].deviation = StoredTeam(1)[j].deviation
                    => last.result.team1[i].delta5 = last.result.team1[j].delta5
              /\ StoredTeam(TeamSize + 1)[i].deviation = StoredTeam(TeamSize + 1)[j].deviation
                    => last.result.team2[i].delta5 = last.result.team2[j].delta5
        /\ \A i \in 1..TeamSize :
              last.result.team1[i].delta5 =
                  rating_change(MeanRating5(StoredTeam(1)), StoredTeam(1)[i].deviation,
                                MeanRating5(StoredTeam(TeamSize + 1)),
                                MeanDeviation5(StoredTeam(TeamSize + 1)), last.on[3])[1]

\* Player 1 is rated 300 above the teammates and got their delta; player 2, of
\* another deviation, got another
C39_HigherRatedSameDelta ==
    /\ last.op = "new_team_ratings"
    /\ players[1].rating = 1700 /\ players[3].rating = 1400
    /\ players[1].deviation = players[3].deviation
    /\ players[2].deviation # players[3].deviation
    /\ last.result.team1[1].delta5 = last.result.team1[3].delta5
    /\ last.result.team1[2].delta5 # last.result.team1[3].delta5

\* C36: a command or a press in one arena leaves the pending entry and the active
\* match of every other arena as they were, teams included.
C36_OtherArenasUntouched ==
    [][LET arena == IF last'.op \in {"recommend_teams", "captains_pick", "report_match",
                                     "report_match_run", "cancel_match"}
                    THEN last'.on ELSE views'[last'.on].channel
       IN  \A other \in Arenas \ {arena} :
               /\ (other \in DOMAIN pending_matches') = (other \in DOMAIN pending_matches)
               /\ (other \in DOMAIN active_matches') = (other \in DOMAIN active_matches)
               /\ other \in DOMAIN pending_matches =>
                     /\ pending_matches'[other] = pending_matches[other]
                     /\ views'[pending_matches[other].view].team1
                           = views[pending_matches[other].view].team1
                     /\ views'[pending_matches[other].view].team2
                           = views[pending_matches[other].view].team2
               /\ other \in DOMAIN active_matches =>
                     /\ active_matches'[other] = active_matches[other]
                     /\ views'[active_matches[other].view].team1
                           = views[active_matches[other].view].team1
                     /\ views'[active_matches[other].view].team2
                           = views[active_matches[other].view].team2]_vars

\* A draft was completed in one arena while the other held the active match of a
\* confirmed proposal
C36_DraftCompletedBesideMatch ==
    /\ last.op = "on_submit_pick_run" /\ last.result = "complete"
    /\ \E other \in DOMAIN active_matches :
          /\ other # views[last.on].channel
          /\ views[active_matches[other].view].kind = "teams"


\* C37: Confirm or Cancel pressed on a proposal that is not the one its arena's
\* pending entry names (a newer proposal of the arena replaced it) leaves that
\* pending entry in place.
C37_OlderProposalKeepsNewerPending ==
    [][\A v \in 1..Len(views) :
          (/\ \/ \E user \in Users, t \in Seconds : confirm_match(v, user, t)
              \/ \E user \in Users : cancel_match_view(v, user)
           /\ views[v].channel \in DOMAIN pending_matches
           /\ pending_matches[views[v].channel].view # v)
          => /\ views[v].channel \in DOMAIN pending_matches'
             /\ pending_matches'[views[v].channel] = pending_matches[views[v].channel]]_vars

\* C38: for ten distinct players, team 1 as returned by balance_teams holds the
\* first player of the input list, as its first member: the combination kept is
\* one of the first half of the enumeration, the half whose combinations start at
\* the first position, and its complement, which has the same difference and comes
\* later, did not replace it.
C38_FirstPlayerInTeamOne ==
    BalancedTen =>
        LET players_data == PlayersData(players, last.on)
            combos == CombinationsOf(players_data)
            kept == BestCombo(players_data)
        IN  /\ last.on[1] \in Range(last.teams[1])
            /\ last.teams[1][1] = last.on[1]
            /\ last.on[1] \notin Range(last.teams[2])
            /\ combos[kept][1] = 1
            /\ 2 * kept <= Len(combos)
            /\ \E later \in (kept + 1)..Len(combos) :
                  /\ combos[later] = Complement(players_data, combos[kept])
                  /\ ComboDiff(players_data, combos[later])
                       = ComboDiff(players_data, combos[kept])

\* A call on the reversed list, whose first player is the lowest rated of the ten
\* while the last one is the highest rated: team 1 holds the first, team 2 the last
C38_LowestRatedFirstKept ==
    /\ BalancedTen
    /\ last.on[1] = NumPlayers
    /\ players[1].rating > players[NumPlayers].rating
    /\ NumPlayers \in Range(last.teams[1])
    /\ 1 \in Range(last.teams[2])
====
